---- MODULE Spec2Model ----
(***************************************************************************)
(* Model of the anomaly-service: the AnomalyDetectionModel class           *)
(* (train / predict / predict_batch / set_threshold), the module-level     *)
(* singleton (get_model / load_model / train_with_dataset) of model.py and *)
(* DatasetLoader (normalize_data / create_sequences / prepare_data) of     *)
(* datasets.py.                                                            *)
(*                                                                         *)
(* Numbers: threshold and contamination are kept in tenths (5 is 0.5).     *)
(* The sklearn objects are represented by what they were fitted on.        *)
(***************************************************************************)
EXTENDS Integers, Sequences, FiniteSets, TLC

\* ---------------------------------------------------------------- bounds
MaxLen == 2          \* longest series handed to train / predict
MaxBatch == 2        \* longest list handed to predict_batch
MaxRows == 31        \* most rows of a CSV handed to train_with_dataset
MaxN == 4            \* longest series handed to create_sequences directly
MaxL == 6            \* largest window length handed to create_sequences

\* ------------------------------------------------------- program constants
DefaultThreshold == 5        \* self.threshold = 0.5
DefaultSeqLength == 30       \* prepare_data(df, seq_length=30)

\* ------------------------------------------------------------------ inputs
\* the series of the specification's scenarios: a linear ramp 1, 2, 3, ...
\* and the same ramp with its last value replaced by an outlier
Ramp(k) == [i \in 1..k |-> i]
WithOutlier(k) == [i \in 1..k |-> IF i = k THEN 9 ELSE i]
Series == {Ramp(k) : k \in 0..MaxLen} \cup {WithOutlier(k) : k \in 0..MaxLen}
\* ok = FALSE: an argument numpy cannot turn into an array with a shape
\* (None, a ragged list, ...); the code then fails inside its try block.
BadData == [ok |-> FALSE, v |-> <<>>]
Data(s) == [ok |-> TRUE, v |-> s]
DataInputs == {Data(s) : s \in Series} \cup {BadData}
TrainInputs == {BadData, Data(<<>>), Data(Ramp(MaxLen)), Data(WithOutlier(MaxLen))}
ThresholdInputs == {-1, 0, 10, 15}
ContaminationInputs == {-1, 0, 1, 7}
SeqsUpTo(S, n) == UNION {[1..k -> S] : k \in 0..n}
\* ok = FALSE: a data_list that cannot be iterated
BatchItems == {Data(<<>>), Data(Ramp(MaxLen)), Data(WithOutlier(MaxLen))}
BatchInputs == {[ok |-> TRUE, v |-> l] : l \in SeqsUpTo(BatchItems, MaxBatch)} \cup {[ok |-> FALSE, v |-> <<>>]}
\* a CSV file: unreadable, or a table whose first column is non-numeric, or
\* a numeric column of so many rows (around the window length, and none)
CsvRows == {0} \cup ((DefaultSeqLength - 1)..MaxRows)
CsvInputs ==
    {[readable |-> FALSE, numeric |-> FALSE, rows |-> 0], [readable |-> TRUE, numeric |-> FALSE, rows |-> DefaultSeqLength]}
    \cup {[readable |-> TRUE, numeric |-> TRUE, rows |-> r] : r \in CsvRows}

\* ------------------------------------------------------------ arithmetic
Max2(a, b) == IF a >= b THEN a ELSE b
Min2(a, b) == IF a <= b THEN a ELSE b
Abs(a) == IF a >= 0 THEN a ELSE -a
RECURSIVE SumSeq(_)
SumSeq(s) == IF s = <<>> THEN 0 ELSE Head(s) + SumSeq(Tail(s))
RECURSIVE MinFrom(_, _, _)
MinFrom(s, i, m) == IF i > Len(s) THEN m ELSE MinFrom(s, i + 1, Min2(m, s[i]))
RECURSIVE MaxFrom(_, _, _)
MaxFrom(s, i, m) == IF i > Len(s) THEN m ELSE MaxFrom(s, i + 1, Max2(m, s[i]))
\* min and max of a non-empty sequence
SeqMin(s) == MinFrom(s, 2, s[1])
SeqMax(s) == MaxFrom(s, 2, s[1])
ISqrt(n) == CHOOSE r \in 0..n : r * r <= n /\ (r + 1) * (r + 1) > n

\* ------------------------------------------------- datasets.DatasetLoader
\* data[lo:hi] of Python, lo and hi zero-based, hi clipped to the length
Slice(data, lo, hi) == SubSeq(data, lo + 1, Min2(hi, Len(data)))

\* create_sequences with range(len(data) - seq_length): the last window is lost
create_sequences_short(data, seq_length) ==
    [j \in 1..Max2(0, Len(data) - seq_length) |-> Slice(data, j - 1, j - 1 + seq_length)]

\* for i in range(len(data) - seq_length + 1): sequences.append(data[i:i+seq_length])
create_sequences(data, seq_length) ==
    [j \in 1..Max2(0, Len(data) - seq_length + 1) |-> Slice(data, j - 1, j - 1 + seq_length)]

\* (data - min) / (max - min + 1e-8), kept in thousandths; the epsilon is
\* below that resolution except when max = min, where every element is 0.
normalize_data(data) ==
    LET lo == SeqMin(data)
        hi == SeqMax(data)
    IN  [i \in 1..Len(data) |-> IF hi = lo THEN 0 ELSE ((data[i] - lo) * 1000) \div (hi - lo)]

\* prepare_data: select the first column, astype(float), normalize, window.
\* A table with no rows makes np.min fail, a non-numeric column makes
\* astype(float) fail; both are reported as failed = TRUE.
prepare_data(csv, seq_length) ==
    IF ~csv.numeric \/ csv.rows = 0
    THEN [failed |-> TRUE, sequences |-> <<>>]
    ELSE [failed |-> FALSE,
          sequences |-> create_sequences(normalize_data([i \in 1..csv.rows |-> i]), seq_length)]

\* ----------------------------------------------------- the sklearn objects
NoData == <<>>
NoneModel == [kind |-> "None", fitted |-> FALSE, fit_on |-> NoData]
\* IsolationForest(contamination=..., random_state=42, n_estimators=100)
NewForest == [kind |-> "IsolationForest", fitted |-> FALSE, fit_on |-> NoData]
FittedForest(d) == [kind |-> "IsolationForest", fitted |-> TRUE, fit_on |-> d]
\* the Sequential model returned by train_lstm_model
LstmModel == [kind |-> "Sequential", fitted |-> TRUE, fit_on |-> NoData]
\* StandardScaler()
NewScaler == [fitted |-> FALSE, fit_on |-> NoData]
FittedScaler(d) == [fitted |-> TRUE, fit_on |-> d]

NoFile == [exists |-> FALSE, obj |-> NoneModel]
NoScalerFile == [exists |-> FALSE, obj |-> NewScaler]

\* StandardScaler: mean_ and scale_ of the data it was fitted on
ScalerMean(s) == SumSeq(s.fit_on) \div Len(s.fit_on)
ScalerScale(s) ==
    LET m == ScalerMean(s)
        var == SumSeq([i \in 1..Len(s.fit_on) |-> (s.fit_on[i] - m) * (s.fit_on[i] - m)]) \div Len(s.fit_on)
    IN  IF ISqrt(var) = 0 THEN 1 ELSE ISqrt(var)
\* scaler.transform(data), in tenths
Scale(x, mean, scale) == ((x - mean) * 10) \div scale
Transform(s, d) ==
    LET mean == ScalerMean(s)
        scale == ScalerScale(s)
    IN  [i \in 1..Len(d) |-> Scale(d[i], mean, scale)]

\* IsolationForest, as a deterministic scorer (random_state is fixed): the
\* scaled training sample is what it has learnt; a point is the more
\* anomalous the farther it lies from that sample.
ForestSample(m) == Transform(FittedScaler(m.fit_on), m.fit_on)
Nearest(x, t) == SeqMin([i \in 1..Len(t) |-> Abs(x - t[i])])
Outside(x, lo, hi) == x < lo \/ x > hi
\* -self.model.score_samples(data_scaled)
ForestScores(m, z) ==
    LET t == ForestSample(m)
    IN  [i \in 1..Len(z) |-> Nearest(z[i], t)]
\* self.model.predict(data_scaled): -1 for anomalies, 1 for normal
ForestPredict(m, z) ==
    LET t == ForestSample(m)
        lo == SeqMin(t)
        hi == SeqMax(t)
    IN  [i \in 1..Len(z) |-> IF Outside(z[i], lo, hi) THEN -1 ELSE 1]

\* IsolationForest.fit rejects a contamination outside (0, 0.5]
ContaminationAccepted(c) == c > 0 /\ c <= 5

VARIABLES model_instance, model, scaler, is_trained, threshold,
          model_file, scaler_file, op, arg, ret,
          w_data, w_len, w_out, w_pc

fields == <<model, scaler, is_trained, threshold>>
files == <<model_file, scaler_file>>
call == <<op, arg, ret>>
wvars == <<w_data, w_len, w_out, w_pc>>
vars == <<model_instance, model, scaler, is_trained, threshold,
          model_file, scaler_file, op, arg, ret, w_data, w_len, w_out, w_pc>>

NoArg == [none |-> TRUE]

\* module import: model_instance = None; the fields are those __init__ gives
Init ==
    /\ model_instance = "None"
    /\ model = NoneModel
    /\ scaler = NewScaler
    /\ is_trained = FALSE
    /\ threshold = DefaultThreshold
    /\ model_file = NoFile
    /\ scaler_file = NoScalerFile
    /\ op = "import"
    /\ arg = NoArg
    /\ ret = NoArg
    /\ w_data = <<>>
    /\ w_len = 1
    /\ w_out = <<>>
    /\ w_pc = "idle"

\* get_model(): create the singleton on first use
GetModel ==
    /\ model_instance' = "singleton"
    /\ op' = "get_model"
    /\ arg' = NoArg
    /\ ret' = [value |-> "singleton"]
    /\ UNCHANGED <<fields, files, wvars>>

\* ------------------------------------------------ AnomalyDetectionModel.train
\* The step of train at which the call leaves its try block:
\*   "convert"     np.array(data) / data.shape fails
\*   "scale"       self.scaler.fit_transform(data) fails (no sample)
\*   "fit"         self.model.fit(data_scaled) fails
\*   "dump_model"  joblib.dump(self.model, ...) fails
\*   "dump_scaler" joblib.dump(self.scaler, ...) fails
\*   "done"        the success report is returned
\* io names the step at which the library or the file system fails on its own
\* account ("none": nowhere); the arguments force the earlier failures.
TrainIoFailures(d, c) ==
    IF d.ok /\ Len(d.v) > 0 /\ ContaminationAccepted(c)
    THEN {"none", "fit", "dump_model", "dump_scaler"}
    ELSE {"none"}
TrainResets(d) == IF d.ok /\ Len(d.v) = 0 THEN BOOLEAN ELSE {FALSE}
TrainStop(d, c, io) ==
    IF ~d.ok THEN "convert"
    ELSE IF Len(d.v) = 0 THEN "scale"
    ELSE IF ~ContaminationAccepted(c) \/ io = "fit" THEN "fit"
    ELSE IF io = "dump_model" THEN "dump_model"
    ELSE IF io = "dump_scaler" THEN "dump_scaler"
    ELSE "done"

\* self.scaler after the call. StandardScaler.fit clears the fitted state
\* before it validates its input, so a failed fit_transform may leave the
\* scaler cleared (reset = TRUE) or as it was.
TrainScaler(d, stop, reset) ==
    IF stop = "convert" THEN scaler
    ELSE IF stop = "scale" THEN (IF reset THEN NewScaler ELSE scaler)
    ELSE FittedScaler(d.v)

\* self.model after the call: assigned a new IsolationForest before fit
TrainModel(d, stop) ==
    IF stop \in {"convert", "scale"} THEN model
    ELSE IF stop = "fit" THEN NewForest
    ELSE FittedForest(d.v)

\* self.is_trained after the call: set right after a successful fit
TrainIsTrained(stop) ==
    IF stop \in {"convert", "scale", "fit"} THEN is_trained ELSE TRUE

TrainModelFile(d, stop) ==
    IF stop \in {"dump_scaler", "done"}
    THEN [exists |-> TRUE, obj |-> FittedForest(d.v)]
    ELSE model_file

TrainScalerFile(d, stop) ==
    IF stop = "done" THEN [exists |-> TRUE, obj |-> FittedScaler(d.v)] ELSE scaler_file

\* train without its except branch: the exception reaches the caller
TrainReport_NoCatch(d, stop) ==
    IF stop = "done"
    THEN [raised |-> FALSE, status |-> "success", samples_trained |-> Len(d.v), message |-> "Model trained successfully"]
    ELSE [raised |-> TRUE, status |-> "none", samples_trained |-> 0, message |-> stop]

TrainReport(d, stop) ==
    IF stop = "done"
    THEN [raised |-> FALSE, status |-> "success", samples_trained |-> Len(d.v), message |-> "Model trained successfully"]
    ELSE [raised |-> FALSE, status |-> "error", samples_trained |-> 0, message |-> stop]

Train(d, c, io, reset) ==
    /\ model_instance = "singleton"
    /\ \E stop \in {TrainStop(d, c, io)} :
           /\ scaler' = TrainScaler(d, stop, reset)
           /\ model' = TrainModel(d, stop)
           /\ is_trained' = TrainIsTrained(stop)
           /\ model_file' = TrainModelFile(d, stop)
           /\ scaler_file' = TrainScalerFile(d, stop)
           /\ ret' = TrainReport(d, stop)
    /\ op' = "train"
    /\ arg' = [data |-> d, contamination |-> c]
    /\ UNCHANGED <<model_instance, threshold, wvars>>

\* ---------------------------------------- AnomalyDetectionModel.set_threshold
\* set_threshold with 0 < threshold < 1: the bounds are refused
ThresholdAccepted_Strict(t) == 0 < t /\ t < 10

ThresholdAccepted(t) == 0 <= t /\ t <= 10

SetThreshold(t) ==
    /\ model_instance = "singleton"
    /\ IF ThresholdAccepted(t)
       THEN /\ threshold' = t
            /\ ret' = [raised |-> FALSE, error |-> "none"]
       ELSE /\ threshold' = threshold
            /\ ret' = [raised |-> TRUE, error |-> "ValueError: Threshold must be between 0 and 1"]
    /\ op' = "set_threshold"
    /\ arg' = [threshold |-> t]
    /\ UNCHANGED <<model_instance, model, scaler, is_trained, files, wvars>>

\* ---------------------------------------------- AnomalyDetectionModel.predict
\* predict with "not self.is_trained and os.path.exists(...)"
NotTrainedGuard_Inverted(trained, mf) == ~trained /\ mf.exists

\* if not self.is_trained and not os.path.exists(self.model_path): raise
NotTrainedGuard(trained, mf) == ~trained /\ ~mf.exists

\* predict with self.scaler.fit_transform(data): the scaler is refitted
PredictScaled_Refit(s, d) == [scaler |-> FittedScaler(d.v), z |-> Transform(FittedScaler(d.v), d.v)]

\* data_scaled = self.scaler.transform(data): the scaler is read, not refitted
PredictScaled(s, d) == [scaler |-> s, z |-> Transform(s, d.v)]

\* whether the body of the try block runs through: the argument is an array,
\* the scaler is fitted and gets at least one sample, and self.model is a
\* fitted IsolationForest (a Sequential model has no score_samples)
Scorable(m, s, d) ==
    /\ d.ok
    /\ Len(d.v) >= 1
    /\ s.fitted
    /\ m.kind = "IsolationForest"
    /\ m.fitted

\* labels = [1 if p == -1 else 0 for p in predictions]
Labels(predictions) == [i \in 1..Len(predictions) |-> IF predictions[i] = -1 THEN 1 ELSE 0]

\* the try block of predict, on the model and scaler now in memory
PredictScore(m, s, d) ==
    IF ~Scorable(m, s, d)
    THEN [raised |-> TRUE, error |-> "ValueError: Error during prediction", scores |-> <<>>,
          labels |-> <<>>, model |-> m, scaler |-> s]
    ELSE LET sc == PredictScaled(s, d)
         IN  [raised |-> FALSE, error |-> "none",
              scores |-> ForestScores(m, sc.z),
              labels |-> Labels(ForestPredict(m, sc.z)),
              model |-> m, scaler |-> sc.scaler]

\* if self.model is None: self.model = joblib.load(...); self.scaler = joblib.load(...)
\* (outside the try block: a missing file raises FileNotFoundError as it is)
PredictLoad(mf, sf, m, s, d) ==
    IF m.kind # "None" THEN PredictScore(m, s, d)
    ELSE IF ~mf.exists
    THEN [raised |-> TRUE, error |-> "FileNotFoundError", scores |-> <<>>, labels |-> <<>>,
          model |-> m, scaler |-> s]
    ELSE IF ~sf.exists
    THEN [raised |-> TRUE, error |-> "FileNotFoundError", scores |-> <<>>, labels |-> <<>>,
          model |-> mf.obj, scaler |-> s]
    ELSE PredictScore(mf.obj, sf.obj, d)

\* One call of predict on an instance whose is_trained, model and scaler are
\* trained, m and s, with the files mf and sf on disk: what it raises or
\* returns, and the model and scaler it leaves behind.
PredictOn(trained, mf, sf, m, s, d) ==
    IF NotTrainedGuard(trained, mf)
    THEN [raised |-> TRUE, error |-> "ValueError: Model not trained", scores |-> <<>>, labels |-> <<>>,
          model |-> m, scaler |-> s]
    ELSE PredictLoad(mf, sf, m, s, d)

PredictOutcome(m, s, d) == PredictOn(is_trained, model_file, scaler_file, m, s, d)

Predict(d) ==
    /\ model_instance = "singleton"
    /\ \E r \in {PredictOutcome(model, scaler, d)} :
           /\ model' = r.model
           /\ scaler' = r.scaler
           /\ ret' = [raised |-> r.raised, error |-> r.error, scores |-> r.scores, labels |-> r.labels]
    /\ op' = "predict"
    /\ arg' = [data |-> d]
    /\ UNCHANGED <<model_instance, is_trained, threshold, files, wvars>>

\* ---------------------------------------- AnomalyDetectionModel.predict_batch
\* predict_batch with labels[0] == 1: only the first label is looked at
IsAnomalous_First(labels) == labels[1] = 1

\* "is_anomalous": max(labels) == 1
IsAnomalous(labels) == SeqMax(labels) = 1

\* The for loop. results maps the position i of "sequence_i" to its entry;
\* an exception leaves the loop at once. calls counts the predict calls made.
\* BatchEntry is the body of the loop, r the outcome of its predict call.
BatchEntry(r) == [scores |-> r.scores, labels |-> r.labels, is_anomalous |-> IsAnomalous(r.labels)]
BatchFailure(r, results, n) ==
    [failed |-> TRUE,
     message |-> IF r.raised THEN r.error ELSE "ValueError: max() arg is an empty sequence",
     results |-> results, model |-> r.model, scaler |-> r.scaler, calls |-> n]
RECURSIVE BatchLoop(_, _, _, _, _)
BatchStep(list, i, r, results) ==
    IF r.raised \/ r.labels = <<>>
    THEN BatchFailure(r, results, i + 1)
    ELSE BatchLoop(list, i + 1, r.model, r.scaler, results @@ (i :> BatchEntry(r)))
BatchLoop(list, i, m, s, results) ==
    IF i >= Len(list)
    THEN [failed |-> FALSE, message |-> "none", results |-> results, model |-> m, scaler |-> s, calls |-> i]
    ELSE BatchStep(list, i, PredictOutcome(m, s, list[i + 1]), results)

\* the report returned: the except branch drops the results gathered so far
BatchReport(b) ==
    IF b.failed
    THEN [raised |-> FALSE, status |-> "error", message |-> b.message, predictions |-> <<>>, calls |-> b.calls]
    ELSE [raised |-> FALSE, status |-> "success", message |-> "none", predictions |-> b.results, calls |-> b.calls]

PredictBatch(l) ==
    /\ model_instance = "singleton"
    /\ \E b \in {IF l.ok
                  THEN BatchLoop(l.v, 0, model, scaler, <<>>)
                  ELSE [failed |-> TRUE, message |-> "TypeError", results |-> <<>>,
                        model |-> model, scaler |-> scaler, calls |-> 0]} :
           /\ model' = b.model
           /\ scaler' = b.scaler
           /\ ret' = BatchReport(b)
    /\ op' = "predict_batch"
    /\ arg' = [data_list |-> l]
    /\ UNCHANGED <<model_instance, is_trained, threshold, files, wvars>>

\* ------------------------------------------------------------- load_model
\* load_model with "or" between the two os.path.exists
EitherFileExists(mf, sf) == mf.exists \/ sf.exists

\* if os.path.exists(model.model_path) and os.path.exists(model.scaler_path)
BothFilesExist(mf, sf) == mf.exists /\ sf.exists

LoadModel ==
    /\ model_instance' = "singleton"
    /\ IF BothFilesExist(model_file, scaler_file)
       THEN /\ model' = model_file.obj
            /\ scaler' = scaler_file.obj
            /\ is_trained' = TRUE
       ELSE UNCHANGED <<model, scaler, is_trained>>
    /\ op' = "load_model"
    /\ arg' = NoArg
    /\ ret' = [raised |-> FALSE, value |-> "singleton"]
    /\ UNCHANGED <<threshold, files, wvars>>

\* ------------------------------------------------------ train_with_dataset
\* The step at which the call leaves its try block:
\*   "load_csv"      pd.read_csv fails
\*   "prepare_data"  prepare_data raises
\*   "no_sequences"  len(sequences) == 0: return False
\*   "train"         train_lstm_model raises
\*   "done"          return True
DatasetStopPrepared(p, train_ok) ==
    IF p.failed THEN "prepare_data"
    ELSE IF Len(p.sequences) = 0 THEN "no_sequences"
    ELSE IF ~train_ok THEN "train"
    ELSE "done"
DatasetStop(csv, train_ok) ==
    IF ~csv.readable THEN "load_csv"
    ELSE DatasetStopPrepared(prepare_data(csv, DefaultSeqLength), train_ok)

\* train_with_dataset assigning the singleton before train_lstm_model returns
DatasetAssigns_Early(stop) == stop \in {"train", "done"}

\* the singleton is fetched and assigned only after training has returned
DatasetAssigns(stop) == stop = "done"

TrainWithDataset(csv, train_ok) ==
    /\ \E stop \in {DatasetStop(csv, train_ok)} :
           /\ IF DatasetAssigns(stop)
              THEN /\ model_instance' = "singleton"
                   /\ model' = LstmModel
                   /\ is_trained' = TRUE
              ELSE UNCHANGED <<model_instance, model, is_trained>>
           /\ ret' = [raised |-> FALSE, value |-> (stop = "done"), stop |-> stop]
    /\ op' = "train_with_dataset"
    /\ arg' = [csv |-> csv]
    /\ UNCHANGED <<scaler, threshold, files, wvars>>

\* new process: the module is imported again, the files stay on disk
Restart ==
    /\ model_instance' = "None"
    /\ model' = NoneModel
    /\ scaler' = NewScaler
    /\ is_trained' = FALSE
    /\ threshold' = DefaultThreshold
    /\ op' = "import"
    /\ arg' = NoArg
    /\ ret' = NoArg
    /\ UNCHANGED <<files, wvars>>

Next ==
    \/ GetModel
    \/ \E d \in TrainInputs, c \in ContaminationInputs :
          \E io \in TrainIoFailures(d, c), reset \in TrainResets(d) : Train(d, c, io, reset)
    \/ \E t \in ThresholdInputs : SetThreshold(t)
    \/ \E d \in DataInputs : Predict(d)
    \/ \E l \in BatchInputs : PredictBatch(l)
    \/ LoadModel
    \/ \E csv \in CsvInputs, train_ok \in BOOLEAN : TrainWithDataset(csv, train_ok)
    \/ Restart

Spec == Init /\ [][Next]_vars

\* ------------------------------------- DatasetLoader.create_sequences alone
WindowValues == {0, 1}

SeqInit ==
    /\ model_instance = "None"
    /\ model = NoneModel
    /\ scaler = NewScaler
    /\ is_trained = FALSE
    /\ threshold = DefaultThreshold
    /\ model_file = NoFile
    /\ scaler_file = NoScalerFile
    /\ op = "import"
    /\ arg = NoArg
    /\ ret = NoArg
    /\ w_data \in SeqsUpTo(WindowValues, MaxN)
    /\ w_len \in 0..MaxL
    /\ w_out = <<>>
    /\ w_pc = "idle"

CreateSequences ==
    /\ w_pc = "idle"
    /\ w_out' = create_sequences(w_data, w_len)
    /\ w_pc' = "done"
    /\ UNCHANGED <<model_instance, fields, files, call, w_data, w_len>>

SeqNext == CreateSequences

SeqSpec == SeqInit /\ [][SeqNext]_vars

\* ------------------------------------------------------------------ claims

\* C1: predict on an instance that was never trained (is_trained false,
\* model None) and whose model file does not exist raises the not-trained
\* ValueError for every input, returns no scores or labels, and leaves
\* model, scaler, is_trained and threshold unchanged.
C1_NotTrainedGuard ==
    [][(op' = "predict" /\ ~is_trained /\ model = NoneModel /\ ~model_file.exists)
        => /\ ret'.raised
           /\ ret'.error = "ValueError: Model not trained"
           /\ ret'.scores = <<>>
           /\ ret'.labels = <<>>
           /\ UNCHANGED <<model, scaler, is_trained, threshold>>]_vars

C1_Witness ==
    /\ op = "predict"
    /\ ret.raised
    /\ ret.error = "ValueError: Model not trained"
    /\ ~is_trained
    /\ model = NoneModel
    /\ ~model_file.exists

\* C2: train never raises; it returns a report whose status is success or
\* error. A success report implies is_trained, model and scaler fitted on
\* the given data, and both files written; an input that makes scaling or
\* fitting fail yields an error report.
C2_TrainReports ==
    [][op' = "train"
        => /\ ~ret'.raised
           /\ ret'.status \in {"success", "error"}
           /\ ret'.status = "success"
                => /\ is_trained'
                   /\ model' = FittedForest(arg'.data.v)
                   /\ scaler' = FittedScaler(arg'.data.v)
                   /\ model_file' = [exists |-> TRUE, obj |-> FittedForest(arg'.data.v)]
                   /\ scaler_file' = [exists |-> TRUE, obj |-> FittedScaler(arg'.data.v)]
                   /\ ret'.samples_trained = Len(arg'.data.v)
           /\ (~arg'.data.ok \/ arg'.data.v = <<>> \/ arg'.contamination > 5 \/ arg'.contamination < 0)
                => ret'.status = "error"
           /\ ret'.status = "error" => ret'.message # ""]_vars

C2_Witness ==
    /\ op = "train"
    /\ ret.status = "success"
    /\ is_trained
    /\ model_file.exists
    /\ scaler_file.exists

\* C3: a contamination outside [0, 0.5] passed to train is rejected before
\* any mutation: scaler, model, is_trained and both files are as before.
C3_ContaminationRejectedFirst ==
    [][(op' = "train" /\ (arg'.contamination < 0 \/ arg'.contamination > 5))
        => UNCHANGED <<scaler, model, is_trained, model_file, scaler_file>>]_vars

\* C4: set_threshold(t) accepts exactly t in [0, 1], bounds included, and
\* then threshold = t; any other t raises a ValueError and leaves every
\* field unchanged. So threshold is within [0, 1] in every state.
C4_ThresholdRange ==
    /\ [](0 <= threshold /\ threshold <= 10)
    /\ [][op' = "set_threshold"
            => IF 0 <= arg'.threshold /\ arg'.threshold <= 10
               THEN /\ ~ret'.raised
                    /\ threshold' = arg'.threshold
                    /\ UNCHANGED <<model_instance, model, scaler, is_trained, files>>
               ELSE /\ ret'.raised
                    /\ ret'.error = "ValueError: Threshold must be between 0 and 1"
                    /\ UNCHANGED <<model_instance, fields, files>>]_vars

C4_Witness ==
    /\ op = "set_threshold"
    /\ arg.threshold = 10
    /\ threshold = 10
    /\ ~ret.raised

\* C5: load_model never raises when a file is absent: with the model file or
\* the scaler file missing it returns the singleton with model, scaler and
\* is_trained unchanged; only with both files present does it load both and
\* set is_trained. What it returns is the singleton get_model returns.
C5_LoadModel ==
    [][op' = "load_model"
        => /\ ~ret'.raised
           /\ model_instance' = "singleton"
           /\ ret'.value = model_instance'
           /\ IF model_file.exists /\ scaler_file.exists
              THEN /\ model' = model_file.obj
                   /\ scaler' = scaler_file.obj
                   /\ is_trained'
              ELSE UNCHANGED <<model, scaler, is_trained>>]_vars

C5_Witness ==
    /\ op = "load_model"
    /\ model_file.exists
    /\ ~scaler_file.exists
    /\ ~is_trained
    /\ model = NoneModel

\* C6: train_with_dataset never raises; on an unreadable or non-numeric
\* dataset, on fewer than 30 rows, and on a training exception it returns
\* False and leaves the singleton's model and is_trained unchanged; it
\* returns True only with the trained model assigned and is_trained set.
C6_TrainWithDatasetFailSoft ==
    [][op' = "train_with_dataset"
        => /\ ~ret'.raised
           /\ (~arg'.csv.readable \/ ~arg'.csv.numeric \/ arg'.csv.rows < 30 \/ ret'.stop = "train")
                => ret'.value = FALSE
           /\ ret'.value = FALSE => UNCHANGED <<model_instance, model, is_trained>>
           /\ ret'.value = TRUE
                => /\ model_instance' = "singleton"
                   /\ model' = LstmModel
                   /\ is_trained']_vars

C6_Witness ==
    /\ op = "train_with_dataset"
    /\ arg.csv.readable
    /\ arg.csv.numeric
    /\ arg.csv.rows = 29
    /\ ret.value = FALSE
    /\ model.kind = "IsolationForest"
    /\ is_trained

\* C7: predict_batch never raises. If predict succeeds on every series the
\* report is a success with one entry per series, keyed by its position,
\* whose is_anomalous holds iff some label of the series is 1. If predict
\* fails on series k the report is an error without predictions, and no
\* series after k is processed.
C7_Series(l, r1, i) ==
    IF i = 0 THEN r1 ELSE PredictOutcome(r1.model, r1.scaler, l[i + 1])

C7_PredictBatch ==
    [][op' = "predict_batch"
        => /\ ~ret'.raised
           /\ ret'.status \in {"success", "error"}
           /\ ~arg'.data_list.ok => ret'.status = "error" /\ ret'.predictions = <<>>
           /\ (arg'.data_list.ok /\ arg'.data_list.v = <<>>)
                => ret'.status = "success" /\ ret'.predictions = <<>>
           /\ (arg'.data_list.ok /\ arg'.data_list.v # <<>>)
                => LET l == arg'.data_list.v
                       r1 == PredictOutcome(model, scaler, l[1])
                       failing == {i \in 0..(Len(l) - 1) : C7_Series(l, r1, i).raised}
                   IN  /\ failing = {}
                            => /\ ret'.status = "success"
                               /\ DOMAIN ret'.predictions = 0..(Len(l) - 1)
                               /\ \A i \in 0..(Len(l) - 1) :
                                     /\ ret'.predictions[i].labels = C7_Series(l, r1, i).labels
                                     /\ ret'.predictions[i].scores = C7_Series(l, r1, i).scores
                                     /\ ret'.predictions[i].is_anomalous
                                          <=> \E j \in 1..Len(ret'.predictions[i].labels) :
                                                 ret'.predictions[i].labels[j] = 1
                       /\ failing # {}
                            => /\ ret'.status = "error"
                               /\ ret'.message # "none"
                               /\ ret'.predictions = <<>>
                               /\ \A k \in failing : ret'.calls <= k + 1]_vars

C7_Witness ==
    /\ op = "predict_batch"
    /\ ret.status = "success"
    /\ DOMAIN ret.predictions = {0, 1}
    /\ ret.predictions[0].is_anomalous
    /\ ~ret.predictions[1].is_anomalous

\* C8: predict on an instance whose model is in memory leaves the scaler,
\* the model, is_trained and threshold unchanged, so predict on the same
\* input right afterwards returns the same scores and labels. The scaler
\* changes only in train, when it is loaded from the files (load_model, or
\* predict with no model in memory), and when a new process starts.
C8_Again(r) == [raised |-> r.raised, error |-> r.error, scores |-> r.scores, labels |-> r.labels]

C8_ScoringNeverRefits ==
    [][/\ (op' = "predict" /\ model # NoneModel)
            => /\ UNCHANGED <<scaler, model, is_trained, threshold>>
               /\ ret' = C8_Again(PredictOn(is_trained', model_file', scaler_file', model', scaler', arg'.data))
       /\ scaler' # scaler
            => \/ op' \in {"train", "load_model", "import"}
               \/ op' \in {"predict", "predict_batch"} /\ model = NoneModel]_vars

C8_Witness ==
    /\ op = "predict"
    /\ ~ret.raised
    /\ \E j \in 1..Len(ret.labels) : ret.labels[j] = 1
    /\ scaler.fit_on # arg.data.v

\* C9: create_sequences(series, L) with 1 <= L <= N returns N-L+1 windows in
\* time order, each of length L, windows[i] = series[i : i+L]; with L > N it
\* returns no window.
C9_Windows ==
    (w_pc = "done" /\ w_len >= 1)
        => IF w_len <= Len(w_data)
           THEN /\ Len(w_out) = Len(w_data) - w_len + 1
                /\ \A i \in 1..Len(w_out) :
                      /\ Len(w_out[i]) = w_len
                      /\ \A j \in 1..w_len : w_out[i][j] = w_data[i + j - 1]
           ELSE w_out = <<>>

C9_Witness ==
    /\ w_pc = "done"
    /\ w_len = 2
    /\ Len(w_data) = 4
    /\ Len(w_out) = 3

\* C10: in every state, is_trained implies that the model in memory is a
\* fitted scorer and that the scaler in memory was fitted in the same
\* training run, so that predict on well-formed input succeeds.
C10_TrainedImpliesUsable ==
    is_trained
        => /\ model.kind = "IsolationForest"
           /\ model.fitted
           /\ scaler.fitted
           /\ scaler.fit_on = model.fit_on
====
